---- MODULE Spec2Model ----
(***************************************************************************)
(* Remote job orchestration of senku_chat_service (src/ssh_manager.py):    *)
(* one SSHManager, the local job registry (remote_jobs/*.json) and the     *)
(* remote host (process table, per-model workspace, models/ directory).    *)
(* Every public method of SSHManager is one action; a remote command or a  *)
(* transfer that raises is an input of the action (fault).                 *)
(* The API layer (src/api.py) on top of it: the module-level manager of    *)
(* get_ssh_manager, training_jobs and the request handlers.                *)
(***************************************************************************)
EXTENDS Integers, Sequences, FiniteSets, TLC

\* ------------------------------------------------------------------ bounds
\* SSHClient objects the manager may create in one run (connect calls that
\* get past the SSHClient() constructor).
MaxClients == 2
\* Process ids the remote host hands out: 1..MaxPid (reuse is possible).
MaxPid == 2
\* Calls of SSHManager methods in one run.
MaxCalls == 4
\* Callers of _save_job_info that run at the same time (threads or worker
\* processes sharing remote_jobs/).
MaxWriters == 2

None == 0
NoJob == <<"none">>
ClientIds == 1..MaxClients
Pids == 1..MaxPid
\* TrainingConfig.model_id.  One id is enough: the workspace, the job id and
\* the registry file of a launch are built from its own model id alone, so
\* launches of different model ids share nothing on either host.
ModelIds == {"m1"}
\* TrainingConfig.remote_workspace default (src/ssh_manager.py:82)
WorkspaceRoot == "/root/workspace"

VARIABLES
    cred,         \* SSHConfig: "password" | "key" | "both" | "none" (neither is set)
    sshAvailable, \* _SSH_AVAILABLE: paramiko and scp could be imported
    ssh_client,   \* SSHManager.ssh_client: None or the id of an SSHClient object
    scp_client,   \* SSHManager.scp_client: None or the id of the SSHClient whose transport it wraps
    clients,      \* state of every SSHClient object created: "unused" | "new" | "open" | "closed"
    scps,         \* state of the SCPClient made on client k's transport: "none" | "open" | "closed"
    registry,     \* remote_jobs/<job_id>.json: Absent | Partial (unparseable) | Stored(record)
    proc,         \* remote process table: pid -> NoProc | ForeignProc | JobProc(model id)
    workspace,    \* remote <root>/<model_id>/: "none" | "dir" | "role" | "staged"
    models,       \* remote <root>/<model_id>/models/: whether it exists, and its entry names
    last,         \* the call that returned last: what it was given, did and answered
    prev,         \* the job id the call before `last` returned when it was a start_training, else NoJob
    issued,       \* job ids start_training has returned
    written,      \* job ids whose registry file _save_job_info has opened for writing
    local_models, \* local <local_path>/<job_id>/: "none" | "dir" (created) | "copied" (models/ fetched)
    calls,        \* SSHManager method calls made so far
    savers,       \* concurrent _save_job_info calls: where each one is, and the job id it saves under
    loader,       \* a concurrent _load_job_info call: where it is, its job id, what it returned last
    files,        \* remote_jobs/ as the concurrent calls see it: job id -> exists, content in blocks
    env_hostname, \* os.environ holds a non-empty SSH_HOSTNAME
    ssh_manager_set, \* the module global _ssh_manager is not None
    training_jobs,   \* api.training_jobs: model id -> NoEntry (no such key) or the recorded entry
    api_pc,       \* where the API request being served is: "idle" between requests
    response,     \* what the last call of the API layer answered (or has answered so far)
    fine_tuning,  \* api.start_fine_tuning is not None (the fine_tune module could be imported)
    background,   \* the run_local task of a local job: model id -> where it is
    temp_files,   \* temporary local files _upload_string_as_file created and has not removed
    demo          \* ssh_training_demo.main: where it is, polls made, disconnect calls made

managerVars == <<cred, sshAvailable, ssh_client, scp_client, clients, scps, registry,
                 proc, workspace, models, last, prev, issued, written, local_models, calls,
                 temp_files>>

saveVars == <<savers, loader, files>>

apiVars == <<env_hostname, ssh_manager_set, training_jobs, api_pc, response,
             fine_tuning, background>>

vars == <<managerVars, saveVars, apiVars, demo>>

\* ------------------------------------------------------------- job ids
\* job_id = f"remote_{model_id}_{pid}"
JobId(m, pid) == <<"remote", m, pid>>

\* what `echo $!` prints when the shell started no background process (the
\* fork failed): an empty line, with exit status 0
NoPid == None

JobIds == {JobId(m, p) : m \in ModelIds, p \in Pids \cup {NoPid}}

\* remote_workspace = f"{training_config.remote_workspace}/{training_config.model_id}"
RemoteWorkspace(m) == <<WorkspaceRoot, m>>

\* TrainingConfig.__dict__ as far as the registry and the claims read it
Config(m) == [model_id |-> m, remote_workspace |-> WorkspaceRoot]

\* the dict _save_job_info dumps
JobInfo(j, m, ws, pid) ==
    [job_id |-> j, model_id |-> m, remote_workspace |-> ws, pid |-> pid, config |-> Config(m)]

\* the value _load_job_info hands back for None
NoInfo == [job_id |-> NoJob, model_id |-> "", remote_workspace |-> <<>>, pid |-> None,
           config |-> [model_id |-> "", remote_workspace |-> ""]]

\* json.dump(job_info, f): the text of the file, every member written as the
\* JSON value of its Python type (str -> string, dict -> object)
JsonDump(info) ==
    [job_id |-> <<"string", info.job_id>>,
     model_id |-> <<"string", info.model_id>>,
     remote_workspace |-> <<"string", info.remote_workspace>>,
     pid |-> <<"string", info.pid>>,
     config |-> <<"object", [model_id |-> <<"string", info.config.model_id>>,
                             remote_workspace |-> <<"string", info.config.remote_workspace>>]>>]

\* a parser that reads the top-level members and skips the nested object
JsonLoadFlat(text) ==
    [job_id |-> text.job_id[2], model_id |-> text.model_id[2],
     remote_workspace |-> text.remote_workspace[2], pid |-> text.pid[2],
     config |-> NoInfo.config]

\* json.load(f) on a complete text: every JSON value back as a Python value
JsonLoad(text) ==
    [job_id |-> text.job_id[2], model_id |-> text.model_id[2],
     remote_workspace |-> text.remote_workspace[2], pid |-> text.pid[2],
     config |-> [model_id |-> text.config[2].model_id[2],
                 remote_workspace |-> text.config[2].remote_workspace[2]]]

\* a registry file: not there, there but truncated (open(job_file, 'w') ran,
\* the dump did not finish), or holding the text of a finished dump
Absent == [state |-> "absent", info |-> JsonDump(NoInfo)]
Partial == [state |-> "partial", info |-> JsonDump(NoInfo)]
Stored(info) == [state |-> "record", info |-> JsonDump(info)]

\* _load_job_info on the registry reg: None when the file is missing (line
\* 583) and None when it does not parse (lines 589-591)
LoadFrom(reg, j) ==
    IF reg[j].state = "record" THEN JsonLoad(reg[j].info) ELSE NoInfo

LoadJobInfo(j) == LoadFrom(registry, j)

\* `if not job_info` is false: _load_job_info returned a record
Loadable(j) == registry[j].state = "record"

\* a slot of the remote process table
NoProc == <<"none">>
ForeignProc == <<"foreign">>
JobProc(m) == <<"job", m>>

\* the models/ directory of a workspace
MissingDir == [exists |-> FALSE, entries |-> {}]
Dir(entries) == [exists |-> TRUE, entries |-> entries]

\* ------------------------------------------------------- directory listing
\* File names are sequences of characters, so that the marker test is the
\* substring test the code runs.
ModelFile == <<"m", "_", "m", "o", "d", "e", "l", ".", "b", "i", "n">>
ConfigFile == <<"m", "_", "c", "o", "n", "f", "i", "g">>
WeightsFile == <<"w", "t", "s", ".", "p", "t">>
\* what the generated train.py writes into models/ (lines 490-497)
ScriptArtifacts == {ModelFile, ConfigFile}
\* entries another trainer or another user of the host may leave in models/
OtherEntries == {WeightsFile}
Marker == <<"m", "o", "d", "e", "l">>
ListingHeader == <<"t", "o", "t", "a", "l", "\n">>

\* str.lower() on the characters the listings hold
LowerChar(c) ==
    CASE c = "M" -> "m" [] c = "O" -> "o" [] c = "D" -> "d"
      [] c = "E" -> "e" [] c = "L" -> "l" [] OTHER -> c

Lower(s) == [i \in 1..Len(s) |-> LowerChar(s[i])]

\* `pat in text`
Contains(text, pat) ==
    \E i \in 1..(Len(text) - Len(pat) + 1) : SubSeq(text, i, i + Len(pat) - 1) = pat

RECURSIVE JoinLines(_)
JoinLines(names) ==
    IF names = {} THEN <<>>
    ELSE LET n == CHOOSE x \in names : TRUE
         IN n \o <<"\n">> \o JoinLines(names \ {n})

\* stdout of `ls -la <workspace>/models/`: empty when the directory is
\* missing (the error goes to stderr), else the header and one line per entry
LsStdout(m) ==
    IF ~models[m].exists THEN <<>> ELSE ListingHeader \o JoinLines(models[m].entries)

\* the branch test of check_training_status: "model" in model_output.lower()
HasModelMarker(text) == \E t \in {text} : Contains(Lower(t), Marker)

\* ----------------------------------------------------------- call records
Call(op, arg, outcome, status, payload, exc, io) ==
    [op |-> op, arg |-> arg, outcome |-> outcome, status |-> status,
     payload |-> payload, exc |-> exc, io |-> io]

NoCall == Call("none", NoJob, "none", "none", <<>>, "none", <<>>)

\* one remote command or transfer handed to a channel, and whether it completed
Io(what, ok) == [what |-> what, ok |-> ok]

\* the job id a call returned when it was a start_training that returned, else NoJob
IssuedBy(call) ==
    IF call.op = "start" /\ call.outcome = "returned" THEN call.payload ELSE NoJob

\* ------------------------------------------- concurrent registry access
Writers == 1..MaxWriters

\* The text json.dump produces for the job_info of caller w, in blocks.  The
\* texts of two callers differ, also in length (their configs differ).
Text(w) == [k \in 1..w |-> <<w, k>>]

NoFile == [exists |-> FALSE, content |-> <<>>]

SaveInit ==
    /\ savers = [w \in Writers |-> [pc |-> "idle", id |-> NoJob]]
    /\ loader = [pc |-> "idle", id |-> NoJob, result |-> <<"none", 0>>]
    /\ files = [j \in JobIds |-> NoFile]

\* lines 560-563: mkdir(exist_ok=True), then open(job_file, 'w') creates the
\* file or truncates the one that is there; the caller writes from offset 0
SaveOpen(w) ==
    /\ savers[w].pc = "idle"
    /\ \E j \in JobIds :
         /\ files' = [files EXCEPT ![j] = [exists |-> TRUE, content |-> <<>>]]
         /\ savers' = [savers EXCEPT ![w] = [pc |-> "open", id |-> j]]
    /\ UNCHANGED <<managerVars, apiVars, demo, loader>>

\* what a file holds after data went in at offset 0 over content c
Overwrite(c, data) == data \o SubSeq(c, Len(data) + 1, Len(c))

\* lines 563-564: json.dump fills the buffer of f and leaving the with block
\* flushes it, one write at the offset of this caller's own handle
SaveDumpClose(w) ==
    /\ savers[w].pc = "open"
    /\ files' = [files EXCEPT ![savers[w].id].content = Overwrite(@, Text(w))]
    /\ savers' = [savers EXCEPT ![w].pc = "done"]
    /\ UNCHANGED <<managerVars, apiVars, demo, loader>>

\* lines 581-584: job_file.exists(); None when it does not
LoadExists ==
    /\ loader.pc = "idle"
    /\ \E j \in JobIds :
         loader' = IF files[j].exists
                   THEN [pc |-> "exists", id |-> j, result |-> <<"none", 0>>]
                   ELSE [pc |-> "idle", id |-> j, result |-> <<"None", 0>>]
    /\ UNCHANGED <<managerVars, apiVars, demo, savers, files>>

\* json.load on a file content: the record of the caller whose whole text it
\* is, a parse error for anything else (empty, cut short, or one text
\* followed by the rest of another)
Parse(c) ==
    IF \E w \in Writers : c = Text(w)
    THEN <<"record", CHOOSE w \in Writers : c = Text(w)>>
    ELSE <<"None", 0>>

\* lines 586-591: open, json.load, None on any exception
LoadRead ==
    /\ loader.pc = "exists"
    /\ loader' = [loader EXCEPT !.pc = "idle", !.result = Parse(files[loader.id].content)]
    /\ UNCHANGED <<managerVars, apiVars, demo, savers, files>>

NextSave ==
    \/ \E w \in Writers : SaveOpen(w)
    \/ \E w \in Writers : SaveDumpClose(w)
    \/ LoadExists
    \/ LoadRead

\* ------------------------------------------------------------ API layer
\* an entry of api.training_jobs; NoEntry: training_jobs.get(model_id) is None
\* status: the recorded "status" value; model_path: the key "model_path" is set
NoEntry == [mode |-> "none", remote_job_id |-> NoJob, status |-> "none", model_path |-> FALSE]
\* an entry that keeps a job id built without the pid
RemoteEntryWithoutPid(j) ==
    [mode |-> "remote", remote_job_id |-> JobId(j[2], NoPid), status |-> "running",
     model_path |-> FALSE]
RemoteEntry(j) == [mode |-> "remote", remote_job_id |-> j, status |-> "running",
                   model_path |-> FALSE]
LocalEntry == [mode |-> "local", remote_job_id |-> NoJob, status |-> "pending",
               model_path |-> FALSE]

\* What a call of the API layer answered.  manager: get_ssh_manager() gave a
\* manager in it; code: the HTTP status (0 for the module functions and for
\* a request still being served); connected: the boolean the call reports;
\* session: the SSHClient object the call's connect() created, if any;
\* status: the job status a /status answer carries.
Answer(h, manager, code, connected, session, status) ==
    [handler |-> h, manager |-> manager, code |-> code, connected |-> connected,
     session |-> session, status |-> status]

NoResponse == Answer("none", FALSE, 0, "na", None, "none")

\* a fresh process of the service: no manager yet, no job recorded
ApiInit ==
    /\ ssh_manager_set = FALSE
    /\ training_jobs = [m \in ModelIds |-> NoEntry]
    /\ api_pc = "idle"
    /\ response = NoResponse
    /\ background = [m \in ModelIds |-> "none"]

\* ssh_training_demo.main before it runs: no poll and no disconnect call made
Demo(pc, job, polls, disconnects) ==
    [pc |-> pc, job |-> job, polls |-> polls, disconnects |-> disconnects]

DemoIdle == Demo("idle", NoJob, 0, 0)

Init ==
    /\ SaveInit
    /\ ApiInit
    /\ env_hostname = FALSE
    /\ fine_tuning = FALSE
    /\ cred \in {"key", "none"}
    /\ sshAvailable = TRUE
    /\ ssh_client = None
    /\ scp_client = None
    /\ clients = [c \in ClientIds |-> "unused"]
    /\ scps = [c \in ClientIds |-> "none"]
    /\ registry = [j \in JobIds |-> Absent]
    /\ proc = [p \in Pids |-> NoProc]
    /\ workspace = [m \in ModelIds |-> "none"]
    /\ models = [m \in ModelIds |-> MissingDir]
    /\ last = NoCall
    /\ prev = NoJob
    /\ issued = {}
    /\ written = {}
    /\ local_models = [j \in JobIds |-> "none"]
    /\ calls = 0
    /\ temp_files = 0
    /\ demo = DemoIdle

\* ------------------------------------------------------------ connection
FreshClients == {c \in ClientIds : clients[c] = "unused"}

\* a connect that prefers the key file when both credentials are configured
MechanismKeyFirst == IF cred \in {"key", "both"} THEN "key" ELSE "password"

\* lines 111-128: `if self.config.password` is tested first, `elif
\* self.config.key_filename` second; the key goes with its passphrase
Mechanism == IF cred \in {"password", "both"} THEN "password" ELSE "key"

\* SSHManager.connect.  netOk: the SSH handshake succeeds; scpOk: SCPClient(...)
\* is constructed.
ConnectResult(c, netOk, scpOk) ==
    IF ~sshAvailable
    THEN \* the stub SSHClient() raises ImportError before the assignment
         [ssh |-> ssh_client, scp |-> scp_client, cl |-> clients, sc |-> scps,
          ret |-> FALSE, exc |-> "ImportError", io |-> <<>>]
    ELSE IF cred = "none"
    THEN [ssh |-> c, scp |-> scp_client, cl |-> [clients EXCEPT ![c] = "new"], sc |-> scps,
          ret |-> FALSE, exc |-> "ValueError", io |-> <<>>]
    ELSE IF ~netOk
    THEN [ssh |-> c, scp |-> scp_client, cl |-> [clients EXCEPT ![c] = "new"], sc |-> scps,
          ret |-> FALSE, exc |-> "SSHException", io |-> <<Io(<<"connect", Mechanism>>, FALSE)>>]
    ELSE IF ~scpOk
    THEN [ssh |-> c, scp |-> scp_client, cl |-> [clients EXCEPT ![c] = "open"], sc |-> scps,
          ret |-> FALSE, exc |-> "SCPException", io |-> <<Io(<<"connect", Mechanism>>, TRUE)>>]
    ELSE [ssh |-> c, scp |-> c, cl |-> [clients EXCEPT ![c] = "open"],
          sc |-> [scps EXCEPT ![c] = "open"],
          ret |-> TRUE, exc |-> "none", io |-> <<Io(<<"connect", Mechanism>>, TRUE)>>]

Connect ==
    /\ FreshClients # {}
    /\ \E netOk \in BOOLEAN, scpOk \in BOOLEAN :
         LET c == CHOOSE x \in FreshClients : \A y \in FreshClients : x <= y
             r == ConnectResult(c, netOk, scpOk)
         IN /\ ssh_client' = r.ssh
            /\ scp_client' = r.scp
            /\ clients' = r.cl
            /\ scps' = r.sc
            /\ last' = Call("connect", NoJob, IF r.ret THEN "true" ELSE "false",
                            "none", <<>>, r.exc, r.io)
    /\ prev' = IssuedBy(last)
    /\ UNCHANGED <<cred, sshAvailable, temp_files, registry, proc, workspace, models, issued,
                   written, local_models>>

\* SSHManager.disconnect.  scpCloseOk / sshCloseOk: the close() call returns.
DisconnectResult(scpCloseOk, sshCloseOk) ==
    IF scp_client # None /\ ~scpCloseOk
    THEN [ssh |-> ssh_client, scp |-> scp_client, cl |-> clients, sc |-> scps,
          outcome |-> "raised", exc |-> "SCPException"]
    ELSE LET sc1 == IF scp_client # None THEN [scps EXCEPT ![scp_client] = "closed"] ELSE scps
         IN IF ssh_client # None /\ ~sshCloseOk
            THEN [ssh |-> ssh_client, scp |-> None, cl |-> clients, sc |-> sc1,
                  outcome |-> "raised", exc |-> "SSHException"]
            ELSE [ssh |-> None, scp |-> None,
                  cl |-> IF ssh_client # None THEN [clients EXCEPT ![ssh_client] = "closed"]
                         ELSE clients,
                  sc |-> sc1, outcome |-> "returned", exc |-> "none"]

Disconnect ==
    /\ \E scpCloseOk \in BOOLEAN, sshCloseOk \in BOOLEAN :
         LET r == DisconnectResult(scpCloseOk, sshCloseOk)
         IN /\ ssh_client' = r.ssh
            /\ scp_client' = r.scp
            /\ clients' = r.cl
            /\ scps' = r.sc
            /\ last' = Call("disconnect", NoJob, r.outcome, "none", <<>>, r.exc, <<>>)
    /\ prev' = IssuedBy(last)
    /\ UNCHANGED <<cred, sshAvailable, temp_files, registry, proc, workspace, models, issued,
                   written, local_models>>

\* ------------------------------------------------------ remote channel
\* execute_command guarding only against a missing client and swallowing channel errors
ExecErrorSwallowed(faulty) == IF ssh_client = None THEN "ConnectionError" ELSE "none"

\* SSHManager.execute_command: the exception it raises, "none" when it returns.
\* faulty: the channel fails under this command (network loss, timeout).
ExecError(faulty) ==
    IF ssh_client = None THEN "ConnectionError"
    ELSE IF clients[ssh_client] # "open" \/ faulty THEN "SSHException"
    ELSE "none"

\* what execute_command hands to the channel: nothing when the guard raises
ExecIo(what, faulty) ==
    IF ssh_client = None THEN <<>> ELSE <<Io(what, ExecError(faulty) = "none")>>

\* SSHManager.upload_file: the exception it raises, "none" when it returns
UploadError(faulty) ==
    IF scp_client = None THEN "ConnectionError"
    ELSE IF scps[scp_client] # "open" \/ clients[scp_client] # "open" \/ faulty
    THEN "SCPException"
    ELSE "none"

UploadIo(what, faulty) ==
    IF scp_client = None THEN <<>> ELSE <<Io(what, UploadError(faulty) = "none")>>

\* SSHManager.download_file: same guard and same channel as upload_file
DownloadError(faulty) == UploadError(faulty)

DownloadIo(what, faulty) ==
    IF scp_client = None THEN <<>> ELSE <<Io(what, DownloadError(faulty) = "none")>>

\* execute_command treating a non-zero exit code as a failure of the call
ExecuteResultRaisesOnNonZero(rc, faulty) ==
    LET e == IF ExecError(faulty) = "none" /\ rc # 0 THEN "RuntimeError" ELSE ExecError(faulty)
    IN Call("exec", <<"cmd", rc>>, IF e = "none" THEN "returned" ELSE "raised", "none",
            IF e = "none" THEN <<"rc", rc>> ELSE <<>>, e, ExecIo(<<"cmd">>, faulty))

\* SSHManager.execute_command called by the user of the manager.  rc: the exit
\* code the remote command ends with; the result is (return_code, stdout, stderr).
ExecuteResult(rc, faulty) ==
    LET e == ExecError(faulty)
    IN Call("exec", <<"cmd", rc>>, IF e = "none" THEN "returned" ELSE "raised", "none",
            IF e = "none" THEN <<"rc", rc>> ELSE <<>>, e, ExecIo(<<"cmd">>, faulty))

ExecuteCommand ==
    /\ \E rc \in {0, 1}, faulty \in BOOLEAN : last' = ExecuteResult(rc, faulty)
    /\ prev' = IssuedBy(last)
    /\ UNCHANGED <<cred, sshAvailable, temp_files, ssh_client, scp_client, clients, scps, registry,
                   proc, workspace, models, issued, written, local_models>>

\* SSHManager.upload_file / download_file called by the user of the manager
TransferResult(op, faulty) ==
    LET e == IF op = "upload_file" THEN UploadError(faulty) ELSE DownloadError(faulty)
        io == IF op = "upload_file" THEN UploadIo(<<"put">>, faulty)
              ELSE DownloadIo(<<"get">>, faulty)
    IN Call(op, NoJob, IF e = "none" THEN "returned" ELSE "raised", "none", <<>>, e, io)

UploadFile ==
    /\ \E faulty \in BOOLEAN : last' = TransferResult("upload_file", faulty)
    /\ prev' = IssuedBy(last)
    /\ UNCHANGED <<cred, sshAvailable, temp_files, ssh_client, scp_client, clients, scps, registry,
                   proc, workspace, models, issued, written, local_models>>

\* SSHManager._upload_string_as_file (lines 507-536) called on its own.
\* stored: the content could be written to the temporary file and the file
\* closed (lines 522-524); faulty: the transfer fails.  The guard raises before
\* anything is created.  NamedTemporaryFile(delete=False) creates the file;
\* when the write or the close raises, the with block closes the file and the
\* exception leaves through the outer except (lines 534-536): the inner
\* try/finally that unlinks the file (lines 526-531) was never entered.
\* left: the temporary files the call leaves on the local disk.
UploadStringResult(stored, faulty) ==
    LET e == UploadError(faulty)
    IN IF ssh_client = None
       THEN [left |-> 0,
             call |-> Call("upload_string", <<"tmp", FALSE>>, "raised", "none", <<>>,
                           "ConnectionError", <<>>)]
       ELSE IF ~stored
       THEN [left |-> 1,
             call |-> Call("upload_string", <<"tmp", TRUE>>, "raised", "none", <<>>,
                           "OSError", <<>>)]
       ELSE [left |-> 0,
             call |-> Call("upload_string", <<"tmp", TRUE>>,
                           IF e = "none" THEN "returned" ELSE "raised", "none", <<>>, e,
                           UploadIo(<<"put">>, faulty))]

UploadStringAsFile ==
    /\ \E stored \in BOOLEAN, faulty \in BOOLEAN :
         LET r == UploadStringResult(stored, faulty)
         IN /\ last' = r.call
            /\ temp_files' = temp_files + r.left
    /\ prev' = IssuedBy(last)
    /\ UNCHANGED <<cred, sshAvailable, ssh_client, scp_client, clients, scps, registry,
                   proc, workspace, models, issued, written, local_models>>

DownloadFile ==
    /\ \E faulty \in BOOLEAN : last' = TransferResult("download_file", faulty)
    /\ prev' = IssuedBy(last)
    /\ UNCHANGED <<cred, sshAvailable, temp_files, ssh_client, scp_client, clients, scps, registry,
                   proc, workspace, models, issued, written, local_models>>

\* `ps -p {pid}` finds a process; with an empty pid ps fails
Alive(pid) == pid \in Pids /\ proc[pid] # NoProc

\* a probe that never sees the process
PsStdoutStopped(pid) == "stopped"

\* stdout of the liveness probe: ps -p {pid} ... && echo 'running' || echo 'stopped'
PsStdout(pid) == IF Alive(pid) THEN "running" ELSE "stopped"

\* ------------------------------------------------- check_training_status
\* lines 341-386, a record having been loaded.  fault: the number of the remote command of this call under which the
\* channel fails, 0 when none does.
CheckLoaded(j, fault) ==
    LET ws == LoadJobInfo(j).remote_workspace
        pid == LoadJobInfo(j).pid
        m == ws[2]
        e1 == ExecError(fault = 1)
        io1 == ExecIo(<<"ps", pid>>, fault = 1)
    IN IF e1 # "none"
       THEN Call("check", j, "returned", "error", <<e1>>, e1, io1)
       ELSE IF PsStdout(pid) = "running"
       THEN LET e2 == ExecError(fault = 2)
                io2 == io1 \o ExecIo(<<"tail -20", ws>>, fault = 2)
            IN IF e2 # "none"
               THEN Call("check", j, "returned", "error", <<e2>>, e2, io2)
               ELSE Call("check", j, "returned", "running", <<"log", ws>>, "none", io2)
       ELSE LET e2 == ExecError(fault = 2)
                io2 == io1 \o ExecIo(<<"ls -la", ws>>, fault = 2)
            IN IF e2 # "none"
               THEN Call("check", j, "returned", "error", <<e2>>, e2, io2)
               ELSE IF HasModelMarker(LsStdout(m))
               THEN Call("check", j, "returned", "completed", LsStdout(m), "none", io2)
               ELSE LET e3 == ExecError(fault = 3)
                        io3 == io2 \o ExecIo(<<"tail -50", ws>>, fault = 3)
                    IN IF e3 # "none"
                       THEN Call("check", j, "returned", "error", <<e3>>, e3, io3)
                       ELSE Call("check", j, "returned", "failed", <<"log", ws>>, "none", io3)

\* a check that probes the host before it looks the record up
CheckResultProbeFirst(j, fault) ==
    IF ~Loadable(j)
    THEN Call("check", j, "returned",
              IF ExecError(fault = 1) # "none" THEN "error" ELSE "not_found",
              IF ExecError(fault = 1) # "none" THEN <<ExecError(fault = 1)>> ELSE <<"Job not found">>,
              ExecError(fault = 1), ExecIo(<<"ps", j[3]>>, fault = 1))
    ELSE CheckLoaded(j, fault)

\* a check that answers from the previous poll once that poll was terminal
CheckResultCached(j, fault) ==
    IF last.op = "check" /\ last.arg = j /\ last.status \in {"completed", "failed"}
    THEN last
    ELSE IF ~Loadable(j)
    THEN Call("check", j, "returned", "not_found", <<"Job not found">>, "none", <<>>)
    ELSE CheckLoaded(j, fault)

\* lines 335-339: the registry is read first, and nothing else happens without a record
CheckResult(j, fault) ==
    IF ~Loadable(j)
    THEN Call("check", j, "returned", "not_found", <<"Job not found">>, "none", <<>>)
    ELSE CheckLoaded(j, fault)

CheckTrainingStatus ==
    /\ \E r \in {CheckResult(j, fault) : j \in JobIds, fault \in 0..3} : last' = r
    /\ prev' = IssuedBy(last)
    /\ UNCHANGED <<cred, sshAvailable, temp_files, ssh_client, scp_client, clients, scps, registry,
                   proc, workspace, models, issued, written, local_models>>

\* ------------------------------------------------ download_trained_model
DownloadFaults == {"none", "ls", "mkdir", "get"}

\* return code of `ls -la <workspace>/models`: non-zero when the directory is missing
LsReturnCode(m) == IF models[m].exists THEN 0 ELSE 2

\* a download that makes the local directory before it looks anything up
DownloadResultDirFirst(j, fault) ==
    [local |-> [local_models EXCEPT ![j] = IF @ = "none" THEN "dir" ELSE @],
     call |-> Call("download", j, "false", "none", <<>>,
                   IF Loadable(j) THEN "FileNotFoundError" ELSE "ValueError", <<>>)]

\* a download that lets the lookup failure escape
DownloadResultRaises(j, fault) ==
    [local |-> local_models,
     call |-> Call("download", j, IF Loadable(j) THEN "false" ELSE "raised", "none", <<>>,
                   IF Loadable(j) THEN "FileNotFoundError" ELSE "ValueError", <<>>)]

\* lines 403-429.  fault: the step that raises ("ls": the channel under the
\* listing, "mkdir": local_model_dir.mkdir, "get": the recursive scp get).
\* Every exception ends in the except branch, which returns False.
DownloadResult(j, fault) ==
    LET ws == LoadJobInfo(j).remote_workspace
        m == ws[2]
        e1 == ExecError(fault = "ls")
        io1 == ExecIo(<<"ls -la", ws>>, fault = "ls")
        e3 == DownloadError(fault = "get")
        io3 == io1 \o DownloadIo(<<"get", ws>>, fault = "get")
        dir == IF local_models[j] = "none" THEN "dir" ELSE local_models[j]
    IN IF ~Loadable(j)
       THEN [local |-> local_models,
             call |-> Call("download", j, "false", "none", <<>>, "ValueError", <<>>)]
       ELSE IF e1 # "none"
       THEN [local |-> local_models,
             call |-> Call("download", j, "false", "none", <<>>, e1, io1)]
       ELSE IF LsReturnCode(m) # 0
       THEN [local |-> local_models,
             call |-> Call("download", j, "false", "none", <<>>, "FileNotFoundError", io1)]
       ELSE IF fault = "mkdir"
       THEN [local |-> local_models,
             call |-> Call("download", j, "false", "none", <<>>, "OSError", io1)]
       ELSE IF e3 # "none"
       THEN [local |-> [local_models EXCEPT ![j] = dir],
             call |-> Call("download", j, "false", "none", <<>>, e3, io3)]
       ELSE [local |-> [local_models EXCEPT ![j] = "copied"],
             call |-> Call("download", j, "true", "none", <<>>, "none", io3)]

DownloadTrainedModel ==
    /\ \E r \in {DownloadResult(j, fault) : j \in JobIds, fault \in DownloadFaults} :
         /\ local_models' = r.local
         /\ last' = r.call
    /\ prev' = IssuedBy(last)
    /\ UNCHANGED <<cred, sshAvailable, temp_files, ssh_client, scp_client, clients, scps, registry,
                   proc, workspace, models, issued, written>>

\* --------------------------------------------------------- start_training
\* the step of a call that fails; "tmp_script": writing the generated script to
\* its temporary local file raises (lines 522-524: disk full, unencodable text)
Faults == {"none", "mkdir", "put_role", "tmp_script", "put_script", "launch_exc",
           "launch_rc", "launch_nopid", "save_open", "save_write"}

\* what a raising start_training leaves behind: the remote workspace as far as
\* it got, every other variable as before
StartRaised(m, roleExists, ws, exc, io) ==
    [workspace |-> [workspace EXCEPT ![m] = ws], proc |-> proc, registry |-> registry,
     issued |-> issued, written |-> written, launched |-> FALSE, leaked |-> FALSE,
     call |-> Call("start", <<m, roleExists>>, "raised", "none", <<>>, exc, io)]

\* a save that returns without having written the record
SaveJobInfoNoRecord(m, roleExists, pid, fault, io) ==
    [workspace |-> [workspace EXCEPT ![m] = "staged"],
     proc |-> [proc EXCEPT ![pid] = JobProc(m)], registry |-> registry,
     issued |-> issued \cup {JobId(m, pid)}, written |-> written, launched |-> TRUE,
     leaked |-> FALSE,
     call |-> Call("start", <<m, roleExists>>, "returned", "none", JobId(m, pid), "none", io)]

\* SSHManager._save_job_info, as the last step of start_training.
\* fault "save_open": mkdir or open raises, nothing is written;
\* fault "save_write": the file was opened (truncated) and the dump did not finish.
SaveJobInfo(m, roleExists, pid, fault, io) ==
    LET j == JobId(m, pid)
        pr == IF pid \in Pids THEN [proc EXCEPT ![pid] = JobProc(m)] ELSE proc
        wsp == [workspace EXCEPT ![m] = "staged"]
    IN IF fault = "save_open"
       THEN [workspace |-> wsp, proc |-> pr, registry |-> registry,
             issued |-> issued, written |-> written, launched |-> pid \in Pids,
             leaked |-> FALSE,
             call |-> Call("start", <<m, roleExists>>, "raised", "none", <<>>, "OSError", io)]
       ELSE IF fault = "save_write"
       THEN [workspace |-> wsp, proc |-> pr,
             registry |-> [registry EXCEPT ![j] = Partial],
             issued |-> issued, written |-> written \cup {j}, launched |-> pid \in Pids,
             leaked |-> FALSE,
             call |-> Call("start", <<m, roleExists>>, "raised", "none", <<>>, "OSError", io)]
       ELSE [workspace |-> wsp, proc |-> pr,
             registry |-> [registry EXCEPT ![j] = Stored(JobInfo(j, m, RemoteWorkspace(m), pid))],
             issued |-> issued \cup {j}, written |-> written \cup {j}, launched |-> pid \in Pids,
             leaked |-> FALSE,
             call |-> Call("start", <<m, roleExists>>, "returned", "none", j, "none", io)]

\* start_training from the launch command on (lines 300-316); the workspace is staged
Launch(m, roleExists, pid, fault, io) ==
    LET e == ExecError(fault = "launch_exc")
        io5 == io \o ExecIo(<<"launch", RemoteWorkspace(m)>>, fault = "launch_exc")
    IN IF e # "none" THEN StartRaised(m, roleExists, "staged", e, io5)
       ELSE IF fault = "launch_rc" THEN StartRaised(m, roleExists, "staged", "RuntimeError", io5)
       ELSE IF fault = "launch_nopid" THEN SaveJobInfo(m, roleExists, NoPid, fault, io5)
       ELSE SaveJobInfo(m, roleExists, pid, fault, io5)

\* an upload that sends the script first and goes on after a failed transfer
StartResultScriptFirst(m, roleExists, pid, fault) ==
    LET io1 == ExecIo(<<"mkdir -p", RemoteWorkspace(m)>>, fault = "mkdir")
        io3 == io1 \o UploadIo(<<"put", "train.py", RemoteWorkspace(m)>>, fault = "put_script")
        io4 == io3 \o UploadIo(<<"put", "role.json", RemoteWorkspace(m)>>, fault = "put_role")
    IN IF ExecError(fault = "mkdir") # "none"
       THEN StartRaised(m, roleExists, workspace[m], ExecError(fault = "mkdir"), io1)
       ELSE IF ~roleExists THEN StartRaised(m, roleExists, "dir", "FileNotFoundError", io1)
       ELSE Launch(m, roleExists, pid, fault, io4)

\* upload_training_files (lines 253-281) followed by the rest of start_training.
\* roleExists: Path(role_file).exists(); pid: the process id `echo $!` prints.
StartResult(m, roleExists, pid, fault) ==
    LET e1 == ExecError(fault = "mkdir")
        io1 == ExecIo(<<"mkdir -p", RemoteWorkspace(m)>>, fault = "mkdir")
        ws1 == IF workspace[m] = "none" THEN "dir" ELSE workspace[m]
        e3 == UploadError(fault = "put_role")
        io3 == io1 \o UploadIo(<<"put", "role.json", RemoteWorkspace(m)>>, fault = "put_role")
        ws3 == IF ws1 = "staged" THEN "staged" ELSE "role"
        e4 == UploadError(fault = "put_script")
        io4 == io3 \o UploadIo(<<"put", "train.py", RemoteWorkspace(m)>>, fault = "put_script")
    IN IF e1 # "none" THEN StartRaised(m, roleExists, workspace[m], e1, io1)
       ELSE IF ~roleExists THEN StartRaised(m, roleExists, ws1, "FileNotFoundError", io1)
       ELSE IF e3 # "none" THEN StartRaised(m, roleExists, ws1, e3, io3)
       ELSE IF fault = "tmp_script"
       THEN [StartRaised(m, roleExists, ws3, "OSError", io3) EXCEPT !.leaked = TRUE]
       ELSE IF e4 # "none" THEN StartRaised(m, roleExists, ws3, e4, io4)
       ELSE Launch(m, roleExists, pid, fault, io4)

\* The pids the shell may give a new process: one no live process holds.
\* Pids that no registry file names are interchangeable (a pid is only ever
\* compared with another), so the lowest of them stands for all of them;
\* a free pid that a registry file names is a reuse and is always offered.
NamedPids == {p \in Pids : \E m \in ModelIds : registry[JobId(m, p)].state # "absent"}

FreePids ==
    LET free == {p \in Pids : proc[p] = NoProc}
        fresh == free \ NamedPids
    IN (free \cap NamedPids) \cup {p \in fresh : \A q \in fresh : p <= q}

\* every way one call can end: one per config, pid and raising step
StartResults ==
    {StartResult(a[1], a[2], a[3], a[4]) :
        a \in {b \in ModelIds \X BOOLEAN \X Pids \X Faults :
                  StartResult(b[1], b[2], b[3], b[4]).launched => b[3] \in FreePids}}

StartTraining ==
    /\ \E r \in StartResults :
            /\ workspace' = r.workspace
            /\ proc' = r.proc
            /\ registry' = r.registry
            /\ issued' = r.issued
            /\ written' = r.written
            /\ last' = r.call
            /\ temp_files' = IF r.leaked THEN temp_files + 1 ELSE temp_files
    /\ prev' = IssuedBy(last)
    /\ UNCHANGED <<cred, sshAvailable, ssh_client, scp_client, clients, scps, models,
                   local_models>>

\* ----------------------------------------------------------- remote host
\* The training process of a job ends.  done = "ok": train.py ran to its end
\* and wrote its artifacts; "failed": it exited after creating models/
\* (role.json unreadable); "killed": it ended before creating models/.
ModelsAfterExit(m, done) ==
    IF done = "ok" THEN Dir(models[m].entries \cup ScriptArtifacts)
    ELSE IF done = "failed" THEN Dir(models[m].entries)
    ELSE models[m]

JobProcessExits ==
    /\ \E p \in Pids, m \in ModelIds, done \in {"ok", "failed", "killed"} :
         /\ proc[p] = JobProc(m)
         /\ models' = [models EXCEPT ![m] = ModelsAfterExit(m, done)]
         /\ proc' = [proc EXCEPT ![p] = NoProc]
    /\ UNCHANGED <<cred, sshAvailable, temp_files, ssh_client, scp_client, clients, scps, registry,
                   workspace, last, prev, issued, written, local_models>>

\* The running train.py reaches models_dir.mkdir(exist_ok=True) (line 468),
\* its first step after printing the configuration.
JobCreatesModelsDir ==
    /\ \E p \in Pids, m \in ModelIds :
         /\ proc[p] = JobProc(m)
         /\ ~models[m].exists
         /\ models' = [models EXCEPT ![m] = Dir({})]
    /\ UNCHANGED <<cred, sshAvailable, temp_files, ssh_client, scp_client, clients, scps, registry,
                   proc, workspace, last, prev, issued, written, local_models>>

\* Another process of the host starts under the pid a registry record
\* names, once that pid is free again (pid reuse), or such a process ends.
\* Processes under pids no record names are left out: no probe asks for them.
RecordedPids == {p \in Pids : \E j \in JobIds : Loadable(j) /\ LoadJobInfo(j).pid = p}

ForeignProcess ==
    /\ \E p \in RecordedPids :
         \/ proc[p] = NoProc /\ proc' = [proc EXCEPT ![p] = ForeignProc]
         \/ proc[p] = ForeignProc /\ proc' = [proc EXCEPT ![p] = NoProc]
    /\ UNCHANGED <<cred, sshAvailable, temp_files, ssh_client, scp_client, clients, scps, registry,
                   workspace, models, last, prev, issued, written, local_models>>

\* Something other than the generated train.py writes an entry into an
\* existing workspace's models/ directory.
OtherEntryWritten ==
    /\ \E m \in ModelIds, n \in OtherEntries :
         /\ workspace[m] # "none"
         /\ n \notin models[m].entries
         /\ models' = [models EXCEPT ![m] = Dir(models[m].entries \cup {n})]
    /\ UNCHANGED <<cred, sshAvailable, temp_files, ssh_client, scp_client, clients, scps, registry,
                   proc, workspace, last, prev, issued, written, local_models>>

\* The runtime finalizes an SSHClient object the manager no longer refers to
\* (connect overwrote self.ssh_client without closing it), which closes its
\* transport.  When this happens, if ever, is up to the garbage collector.
DroppedClientClosed ==
    /\ \E c \in ClientIds :
         /\ c # ssh_client
         /\ clients[c] = "open"
         /\ clients' = [clients EXCEPT ![c] = "closed"]
    /\ UNCHANGED <<cred, sshAvailable, temp_files, ssh_client, scp_client, scps, registry, proc,
                   workspace, models, last, prev, issued, written, local_models>>

\* one more method call of the caller, while the run's budget lasts
Counted == calls < MaxCalls /\ calls' = calls + 1

Next ==
    /\ \/ Counted /\ Connect
       \/ Counted /\ Disconnect
       \/ Counted /\ StartTraining
       \/ Counted /\ CheckTrainingStatus
       \/ Counted /\ DownloadTrainedModel
       \/ JobProcessExits /\ UNCHANGED calls
       \/ JobCreatesModelsDir /\ UNCHANGED calls
       \/ ForeignProcess /\ UNCHANGED calls
       \/ OtherEntryWritten /\ UNCHANGED calls
       \/ DroppedClientClosed /\ UNCHANGED calls
    /\ UNCHANGED <<saveVars, apiVars, demo>>

Spec == Init /\ [][Next]_vars

\* An SSHManager built directly from any SSHConfig, in an environment with or
\* without paramiko, used through its connection and channel methods.
InitConn ==
    /\ SaveInit
    /\ ApiInit
    /\ env_hostname = FALSE
    /\ fine_tuning = FALSE
    /\ cred \in {"password", "key", "both", "none"}
    /\ sshAvailable \in BOOLEAN
    /\ ssh_client = None
    /\ scp_client = None
    /\ clients = [c \in ClientIds |-> "unused"]
    /\ scps = [c \in ClientIds |-> "none"]
    /\ registry = [j \in JobIds |-> Absent]
    /\ proc = [p \in Pids |-> NoProc]
    /\ workspace = [m \in ModelIds |-> "none"]
    /\ models = [m \in ModelIds |-> MissingDir]
    /\ last = NoCall
    /\ prev = NoJob
    /\ issued = {}
    /\ written = {}
    /\ local_models = [j \in JobIds |-> "none"]
    /\ calls = 0
    /\ temp_files = 0
    /\ demo = DemoIdle

NextConn ==
    /\ \/ Counted /\ Connect
       \/ Counted /\ Disconnect
       \/ Counted /\ ExecuteCommand
       \/ Counted /\ UploadFile
       \/ Counted /\ DownloadFile
       \/ Counted /\ UploadStringAsFile
       \/ DroppedClientClosed /\ UNCHANGED calls
    /\ UNCHANGED <<saveVars, apiVars, demo>>

SpecConn == InitConn /\ [][NextConn]_vars

\* A caller that launches jobs and then keeps polling them, as the monitoring
\* loop of the demo does, while the remote host goes on.  Polls are not
\* counted: the caller may poll for ever.  An open session carries every
\* command of a poll (the session stays connected).
Poll(j) ==
    /\ last' = CheckResult(j, 0)
    /\ prev' = IssuedBy(last)
    /\ UNCHANGED <<cred, sshAvailable, temp_files, ssh_client, scp_client, clients, scps, registry,
                   proc, workspace, models, issued, written, local_models, calls, saveVars, apiVars,
                   demo>>

JobExitStep == JobProcessExits /\ UNCHANGED <<calls, saveVars, apiVars, demo>>

NextLive ==
    /\ \/ Counted /\ Connect
       \/ Counted /\ StartTraining
       \/ \E j \in JobIds : Poll(j)
       \/ JobProcessExits /\ UNCHANGED calls
       \/ JobCreatesModelsDir /\ UNCHANGED calls
       \/ ForeignProcess /\ UNCHANGED calls
    /\ UNCHANGED <<saveVars, apiVars, demo>>

\* The training process ends at some time (train.py has no unbounded loop),
\* and the caller polls each job again and again (a poll that would change
\* nothing the caller has seen may be left out).  Processes of other users
\* of the host owe nothing.
SpecLive ==
    /\ Init
    /\ [][NextLive]_vars
    /\ WF_vars(JobExitStep)
    /\ \A j \in JobIds : WF_vars(Poll(j))

\* _save_job_info and _load_job_info called at the same time by several
\* callers of one remote_jobs/ directory.
SpecSave == Init /\ [][NextSave]_vars

\* ------------------------------------------------- API requests (api.py)
\* The handlers are `async def` and call the manager without awaiting, so one
\* request is served at a time; the remote host goes on while a request is
\* served.  A handler is cut into steps at its calls of the manager.

\* the manager a direct caller built (SSHManager(config)) is left alone
ManagerIdle ==
    UNCHANGED <<cred, sshAvailable, temp_files, ssh_client, scp_client, clients, scps, registry,
                proc, workspace, models, last, prev, issued, written, local_models>>

\* a get_ssh_manager that builds the manager without asking for a hostname
ManagerReturnedNoHostname == ssh_manager_set \/ sshAvailable

\* a get_ssh_manager that keeps no manager and reads the environment every time
ManagerReturnedUncached == env_hostname /\ sshAvailable

\* get_ssh_manager() returns a manager: the cached one (lines 642-643), or a
\* new one when SSH_HOSTNAME is set and paramiko/scp are there (lines 650-662)
ManagerReturned == ssh_manager_set \/ (env_hostname /\ sshAvailable)

\* the SSHClient object the connect() of this step created, None when it made none
SessionMade == IF clients' # clients THEN ssh_client' ELSE None

\* model ids (uuid4) no launch has used
FreshModels == {m \in ModelIds : workspace[m] = "none" /\ training_jobs[m] = NoEntry}

\* get_ssh_manager() called by itself
GetSshManager ==
    /\ api_pc = "idle"
    /\ ssh_manager_set' = ManagerReturned
    /\ response' = Answer("get_ssh_manager", ManagerReturned, 0, "na", None, "none")
    /\ ManagerIdle
    /\ UNCHANGED <<env_hostname, training_jobs, api_pc, fine_tuning, background>>

\* connect_ssh()
ConnectSsh ==
    /\ api_pc = "idle"
    /\ ssh_manager_set' = ManagerReturned
    /\ IF ManagerReturned
       THEN /\ Connect
            /\ response' = Answer("connect_ssh", TRUE, 0, last'.outcome, SessionMade, "none")
       ELSE /\ ManagerIdle
            /\ response' = Answer("connect_ssh", FALSE, 0, "false", None, "none")
    /\ UNCHANGED <<env_hostname, training_jobs, api_pc, fine_tuning, background>>

\* disconnect_ssh(); what disconnect() raises goes on to the caller
DisconnectSsh ==
    /\ api_pc = "idle"
    /\ ssh_manager_set' = ManagerReturned
    /\ IF ManagerReturned THEN Disconnect ELSE ManagerIdle
    /\ response' = Answer("disconnect_ssh", ManagerReturned, 0, "na", None, "none")
    /\ UNCHANGED <<env_hostname, training_jobs, api_pc, fine_tuning, background>>

\* POST /train, training_mode = "remote", up to manager.connect() (lines
\* 159-185).  roleExists: roles/<request.role> exists.
TrainBegin ==
    /\ api_pc = "idle"
    /\ \E roleExists \in BOOLEAN :
         IF ~roleExists
         THEN /\ response' = Answer("train", FALSE, 400, "na", None, "none")
              /\ ManagerIdle
              /\ UNCHANGED <<ssh_manager_set, api_pc>>
         ELSE /\ ssh_manager_set' = ManagerReturned
              /\ IF ~ManagerReturned
                 THEN /\ response' = Answer("train", FALSE, 503, "na", None, "none")
                      /\ ManagerIdle
                      /\ UNCHANGED api_pc
                 ELSE /\ Connect
                      /\ IF last'.outcome = "true"
                         THEN /\ FreshModels # {}
                              /\ response' = Answer("train", TRUE, 0, "true", SessionMade, "none")
                              /\ api_pc' = "train_start"
                         ELSE /\ response' = Answer("train", TRUE, 503, "false", SessionMade, "none")
                              /\ UNCHANGED api_pc
    /\ UNCHANGED <<env_hostname, training_jobs, fine_tuning, background>>

\* lines 187-206: start_training under the new model id, then _record_job
TrainStart ==
    /\ api_pc = "train_start"
    /\ StartTraining
    /\ last'.arg[1] \in FreshModels
    /\ IF last'.outcome = "returned"
       THEN /\ training_jobs' = [training_jobs EXCEPT ![last'.arg[1]] = RemoteEntry(last'.payload)]
            /\ response' = [response EXCEPT !.code = 200]
            /\ api_pc' = "idle"
       ELSE /\ api_pc' = "train_disconnect"
            /\ UNCHANGED <<training_jobs, response>>
    /\ UNCHANGED <<env_hostname, ssh_manager_set, fine_tuning, background>>

\* lines 189-192: manager.disconnect() in the except branch, then the 500
TrainDisconnect ==
    /\ api_pc = "train_disconnect"
    /\ Disconnect
    /\ response' = [response EXCEPT !.code = 500]
    /\ api_pc' = "idle"
    /\ UNCHANGED <<env_hostname, ssh_manager_set, training_jobs, fine_tuning, background>>

\* the entry training_jobs.get(model_id) finds; "unknown" is an id never generated
JobOf(m) == IF m \in ModelIds THEN training_jobs[m] ELSE NoEntry

\* GET /status/{model_id} (lines 254-275)
GetStatus ==
    /\ api_pc = "idle"
    /\ \E m \in ModelIds \cup {"unknown"} :
         IF JobOf(m).mode = "none"
         THEN /\ response' = Answer("status", FALSE, 404, "na", None, "none")
              /\ ManagerIdle
              /\ UNCHANGED ssh_manager_set
         ELSE IF JobOf(m).mode = "local"
         THEN \* lines 273-275: the recorded status
              /\ response' = Answer("status", FALSE, 200, "na", None, JobOf(m).status)
              /\ ManagerIdle
              /\ UNCHANGED ssh_manager_set
         ELSE /\ ssh_manager_set' = ManagerReturned
              /\ IF ~ManagerReturned
                 THEN /\ response' = Answer("status", FALSE, 503, "na", None, "none")
                      /\ ManagerIdle
                 ELSE /\ CheckTrainingStatus
                      /\ last'.arg = JobOf(m).remote_job_id
                      /\ response' = Answer("status", TRUE, 200, "na", None, last'.status)
    /\ UNCHANGED <<env_hostname, training_jobs, api_pc, fine_tuning, background>>

\* GET /download/{model_id} (lines 284-323).  For a local job with a
\* model_path the storage backend is absent (the path is returned), returns a
\* URL, or raises (500).
Download ==
    /\ api_pc = "idle"
    /\ \E m \in ModelIds \cup {"unknown"} :
         IF JobOf(m).mode = "none"
         THEN /\ response' = Answer("download", FALSE, 404, "na", None, "none")
              /\ ManagerIdle
              /\ UNCHANGED ssh_manager_set
         ELSE IF JobOf(m).mode = "local"
         THEN /\ IF ~JobOf(m).model_path
                 THEN response' = Answer("download", FALSE, 404, "na", None, "not_ready")
                 ELSE \E code \in {200, 500} :
                         response' = Answer("download", FALSE, code, "na", None, "none")
              /\ ManagerIdle
              /\ UNCHANGED ssh_manager_set
         ELSE /\ ssh_manager_set' = ManagerReturned
              /\ IF ~ManagerReturned
                 THEN /\ response' = Answer("download", FALSE, 503, "na", None, "none")
                      /\ ManagerIdle
                 ELSE /\ DownloadTrainedModel
                      /\ last'.arg = JobOf(m).remote_job_id
                      /\ response' = Answer("download", TRUE,
                                            IF last'.outcome = "true" THEN 200 ELSE 500,
                                            "na", None, "none")
    /\ UNCHANGED <<env_hostname, training_jobs, api_pc, fine_tuning, background>>

\* POST /train, training_mode = "local" (lines 159-162, 207-246): the entry
\* is recorded and run_local is handed to the background tasks
TrainLocal ==
    /\ api_pc = "idle"
    /\ \E roleExists \in BOOLEAN :
         IF ~roleExists
         THEN /\ response' = Answer("train_local", FALSE, 400, "na", None, "none")
              /\ UNCHANGED <<training_jobs, background>>
         ELSE IF ~fine_tuning
         THEN /\ response' = Answer("train_local", FALSE, 503, "na", None, "none")
              /\ UNCHANGED <<training_jobs, background>>
         ELSE \E m \in FreshModels :
                /\ training_jobs' = [training_jobs EXCEPT ![m] = LocalEntry]
                /\ background' = [background EXCEPT ![m] = "scheduled"]
                /\ response' = Answer("train_local", FALSE, 200, "na", None, "pending")
    /\ ManagerIdle
    /\ UNCHANGED <<env_hostname, ssh_manager_set, api_pc, fine_tuning>>

\* run_local runs in a worker thread after the response was sent, beside the
\* requests served meanwhile.  Lines 217-226: start_fine_tuning returned and
\* training_jobs[model_id]["status"] = "completed" ran.
RunLocalCompleted ==
    /\ \E m \in ModelIds :
         /\ background[m] = "scheduled"
         /\ training_jobs' = [training_jobs EXCEPT ![m].status = "completed"]
         /\ background' = [background EXCEPT ![m] = "status_set"]
    /\ ManagerIdle
    /\ UNCHANGED <<env_hostname, ssh_manager_set, api_pc, response, fine_tuning>>

\* line 227: training_jobs[model_id]["model_path"] = model_path
RunLocalModelPath ==
    /\ \E m \in ModelIds :
         /\ background[m] = "status_set"
         /\ training_jobs' = [training_jobs EXCEPT ![m].model_path = TRUE]
         /\ background' = [background EXCEPT ![m] = "done"]
    /\ ManagerIdle
    /\ UNCHANGED <<env_hostname, ssh_manager_set, api_pc, response, fine_tuning>>

\* lines 228-230: start_fine_tuning raised; the status becomes failed (the
\* "error" text stored next is read by no handler)
RunLocalFailed ==
    /\ \E m \in ModelIds :
         /\ background[m] = "scheduled"
         /\ training_jobs' = [training_jobs EXCEPT ![m].status = "failed"]
         /\ background' = [background EXCEPT ![m] = "done"]
    /\ ManagerIdle
    /\ UNCHANGED <<env_hostname, ssh_manager_set, api_pc, response, fine_tuning>>

\* GET /ssh/status up to manager.connect() (lines 334-340, 345-346)
SshStatusBegin ==
    /\ api_pc = "idle"
    /\ ssh_manager_set' = ManagerReturned
    /\ IF ~ManagerReturned
       THEN /\ response' = Answer("ssh_status", FALSE, 200, "false", None, "none")
            /\ ManagerIdle
            /\ UNCHANGED api_pc
       ELSE /\ Connect
            /\ IF last'.outcome = "true"
               THEN /\ response' = Answer("ssh_status", TRUE, 0, "true", SessionMade, "none")
                    /\ api_pc' = "ssh_status_disconnect"
               ELSE /\ response' = Answer("ssh_status", TRUE, 200, "false", SessionMade, "none")
                    /\ UNCHANGED api_pc
    /\ UNCHANGED <<env_hostname, training_jobs, fine_tuning, background>>

\* lines 341-344 and 347-348: manager.disconnect(); when it raises the
\* handler's except answers connected=False
SshStatusDisconnect ==
    /\ api_pc = "ssh_status_disconnect"
    /\ Disconnect
    /\ response' = [response EXCEPT !.code = 200,
                                    !.connected = IF last'.outcome = "returned"
                                                  THEN "true" ELSE "false"]
    /\ api_pc' = "idle"
    /\ UNCHANGED <<env_hostname, ssh_manager_set, training_jobs, fine_tuning, background>>

\* SSH_HOSTNAME is set or unset in os.environ by other code of the process;
\* get_ssh_manager reads it anew on every call that finds no cached manager
EnvChange ==
    /\ env_hostname' = ~env_hostname
    /\ ManagerIdle
    /\ UNCHANGED <<ssh_manager_set, training_jobs, api_pc, response, fine_tuning, background>>

\* The service process: a manager exists only through get_ssh_manager, which
\* passes the key file of SSH_KEY_FILENAME (cred "key") or none.
InitApi ==
    /\ SaveInit
    /\ ApiInit
    /\ env_hostname \in BOOLEAN
    /\ fine_tuning = FALSE
    /\ cred \in {"key", "none"}
    /\ sshAvailable \in BOOLEAN
    /\ ssh_client = None
    /\ scp_client = None
    /\ clients = [c \in ClientIds |-> "unused"]
    /\ scps = [c \in ClientIds |-> "none"]
    /\ registry = [j \in JobIds |-> Absent]
    /\ proc = [p \in Pids |-> NoProc]
    /\ workspace = [m \in ModelIds |-> "none"]
    /\ models = [m \in ModelIds |-> MissingDir]
    /\ last = NoCall
    /\ prev = NoJob
    /\ issued = {}
    /\ written = {}
    /\ local_models = [j \in JobIds |-> "none"]
    /\ calls = 0
    /\ temp_files = 0
    /\ demo = DemoIdle

NextApi ==
    /\ \/ Counted /\ GetSshManager
       \/ Counted /\ ConnectSsh
       \/ Counted /\ DisconnectSsh
       \/ Counted /\ TrainBegin
       \/ TrainStart /\ UNCHANGED calls
       \/ TrainDisconnect /\ UNCHANGED calls
       \/ Counted /\ GetStatus
       \/ Counted /\ Download
       \/ Counted /\ SshStatusBegin
       \/ SshStatusDisconnect /\ UNCHANGED calls
       \/ EnvChange /\ UNCHANGED calls
       \/ JobProcessExits /\ UNCHANGED <<calls, apiVars>>
       \/ JobCreatesModelsDir /\ UNCHANGED <<calls, apiVars>>
       \/ ForeignProcess /\ UNCHANGED <<calls, apiVars>>
       \/ DroppedClientClosed /\ UNCHANGED <<calls, apiVars>>
    /\ UNCHANGED <<saveVars, demo>>

SpecApi == InitApi /\ [][NextApi]_vars

\* The service process serving local-mode jobs, which use no manager.
InitLocal ==
    /\ SaveInit
    /\ ApiInit
    /\ env_hostname \in BOOLEAN
    /\ fine_tuning \in BOOLEAN
    /\ cred \in {"key", "none"}
    /\ sshAvailable \in BOOLEAN
    /\ ssh_client = None
    /\ scp_client = None
    /\ clients = [c \in ClientIds |-> "unused"]
    /\ scps = [c \in ClientIds |-> "none"]
    /\ registry = [j \in JobIds |-> Absent]
    /\ proc = [p \in Pids |-> NoProc]
    /\ workspace = [m \in ModelIds |-> "none"]
    /\ models = [m \in ModelIds |-> MissingDir]
    /\ last = NoCall
    /\ prev = NoJob
    /\ issued = {}
    /\ written = {}
    /\ local_models = [j \in JobIds |-> "none"]
    /\ calls = 0
    /\ temp_files = 0
    /\ demo = DemoIdle

NextLocal ==
    /\ \/ Counted /\ TrainLocal
       \/ Counted /\ GetStatus
       \/ Counted /\ Download
       \/ RunLocalCompleted /\ UNCHANGED calls
       \/ RunLocalModelPath /\ UNCHANGED calls
       \/ RunLocalFailed /\ UNCHANGED calls
    /\ UNCHANGED <<saveVars, demo>>

SpecLocal == InitLocal /\ [][NextLocal]_vars

\* ------------------------------------------------------------ the demo
\* ssh_training_demo.main from its try block on (lines 55-170), cut at the
\* manager calls.  get_ssh_manager() has returned a manager (line 50): the
\* environment names a host and a key file and the SSH libraries are there.
\* demo.pc = "finally" stands at the finally clause of line 166, which every
\* return and every exception inside the try block passes through.

\* for i in range(10), line 131
MonitorChecks == 10

\* a loop that leaves on an error answer as well
AfterCheckStopsOnError(status, polls) ==
    IF status \in {"completed", "failed", "error"} \/ polls = MonitorChecks
    THEN "final" ELSE "monitor"

\* lines 131-138: where main is after the check that was number `polls` of
\* the loop: the break on completed or failed, the end of range(10), or
\* time.sleep(30) and the next round
AfterCheck(status, polls) ==
    IF status \in {"completed", "failed"} \/ polls = MonitorChecks
    THEN "final" ELSE "monitor"

\* line 58: if not ssh_manager.connect(): return 1
DemoConnect ==
    /\ demo.pc = "idle"
    /\ Connect
    /\ demo' = [demo EXCEPT !.pc = IF last'.outcome = "true" THEN "setup" ELSE "finally"]

\* lines 72-76: setup_environment() (ssh_manager.py lines 616-634) runs its
\* commands through execute_command; a failing exit code is logged, an
\* exception ends the loop and is caught by main (a warning).  The record kept
\* is the one of the last command run.
DemoSetup ==
    /\ demo.pc = "setup"
    /\ ExecuteCommand
    /\ demo' = [demo EXCEPT !.pc = "roles"]

\* lines 82-119: roles/ and its *.json files are looked up (return 1 when
\* there is none) and the user is asked whether to go on (return 0 unless 'y')
DemoPrepare ==
    /\ demo.pc = "roles"
    /\ \E rolesFound \in BOOLEAN, answer \in {"y", "n"} :
         demo' = [demo EXCEPT !.pc = IF rolesFound /\ answer = "y" THEN "start"
                                     ELSE "finally"]
    /\ UNCHANGED managerVars

\* line 124: start_training; an exception is caught at line 162 (return 1)
DemoStart ==
    /\ demo.pc = "start"
    /\ StartTraining
    /\ demo' = IF last'.outcome = "returned"
               THEN [demo EXCEPT !.pc = "monitor", !.job = last'.payload]
               ELSE [demo EXCEPT !.pc = "finally"]

\* lines 131-138: one round of the monitoring loop
DemoMonitor ==
    /\ demo.pc = "monitor"
    /\ CheckTrainingStatus
    /\ last'.arg = demo.job
    /\ demo' = [demo EXCEPT !.polls = demo.polls + 1,
                            !.pc = AfterCheck(last'.status, demo.polls + 1)]

\* lines 140-160: the check after the loop, and the question whether to
\* download a completed model
DemoFinal ==
    /\ demo.pc = "final"
    /\ CheckTrainingStatus
    /\ last'.arg = demo.job
    /\ \E answer \in {"y", "n"} :
         demo' = [demo EXCEPT !.pc = IF last'.status = "completed" /\ answer = "y"
                                     THEN "download" ELSE "finally"]

\* line 150: download_trained_model(job_id, "models")
DemoDownload ==
    /\ demo.pc = "download"
    /\ DownloadTrainedModel
    /\ last'.arg = demo.job
    /\ demo' = [demo EXCEPT !.pc = "finally"]

\* lines 166-170: ssh_manager.disconnect() in the finally clause; main ends
\* whether it returns or raises
DemoDisconnect ==
    /\ demo.pc = "finally"
    /\ Disconnect
    /\ demo' = [demo EXCEPT !.pc = "done", !.disconnects = demo.disconnects + 1]

InitDemo ==
    /\ SaveInit
    /\ ApiInit
    /\ env_hostname = TRUE
    /\ fine_tuning = FALSE
    /\ cred = "key"
    /\ sshAvailable = TRUE
    /\ ssh_client = None
    /\ scp_client = None
    /\ clients = [c \in ClientIds |-> "unused"]
    /\ scps = [c \in ClientIds |-> "none"]
    /\ registry = [j \in JobIds |-> Absent]
    /\ proc = [p \in Pids |-> NoProc]
    /\ workspace = [m \in ModelIds |-> "none"]
    /\ models = [m \in ModelIds |-> MissingDir]
    /\ last = NoCall
    /\ prev = NoJob
    /\ issued = {}
    /\ written = {}
    /\ local_models = [j \in JobIds |-> "none"]
    /\ calls = 0
    /\ temp_files = 0
    /\ demo = DemoIdle

NextDemo ==
    /\ \/ DemoConnect /\ UNCHANGED calls
       \/ DemoSetup /\ UNCHANGED calls
       \/ DemoPrepare
       \/ DemoStart /\ UNCHANGED calls
       \/ DemoMonitor /\ UNCHANGED calls
       \/ DemoFinal /\ UNCHANGED calls
       \/ DemoDownload /\ UNCHANGED calls
       \/ DemoDisconnect /\ UNCHANGED calls
       \/ JobProcessExits /\ UNCHANGED <<calls, demo>>
       \/ JobCreatesModelsDir /\ UNCHANGED <<calls, demo>>
       \/ ForeignProcess /\ UNCHANGED <<calls, demo>>
    /\ UNCHANGED <<saveVars, apiVars>>

SpecDemo == InitDemo /\ [][NextDemo]_vars

\* ================================================================ claims
\* a step that is one call of the named SSHManager method
CallStep(op) == calls' = calls + 1 /\ last'.op = op

\* the check that returned last was made right after the start_training that issued its job id
CheckedRightAfterStart == last.op = "check" /\ prev # NoJob /\ last.arg = prev

\* the manager holds a usable session
SessionOpen == ssh_client # None /\ clients[ssh_client] = "open"

\* A start_training step with an existing role file either returns a job id,
\* then issued and stored under that id, or raises, issues nothing and leaves
\* no registry record (a file that loads) that was not there before the call.
StartIssuesOrLeavesNothing ==
    (CallStep("start") /\ last'.arg[2])
        => IF last'.outcome = "returned"
           THEN /\ issued' = issued \cup {last'.payload}
                /\ registry'[last'.payload].state = "record"
           ELSE /\ issued' = issued
                /\ \A j \in JobIds :
                     registry'[j].state = "record" => registry'[j] = registry[j]

C2_AliveNeverTerminal ==
    [][(CallStep("check") /\ Loadable(last'.arg)
          /\ Alive(LoadJobInfo(last'.arg).pid))
         => last'.status \in {"running", "error"}]_vars

C2_Witness ==
    /\ last.op = "check" /\ last.status = "running"
    /\ proc[LoadJobInfo(last.arg).pid] = ForeignProc

\* C3 as the claim states it: the process is gone and every polling command
\* completed; then a non-empty models/ (whatever its entries are called) gives
\* completed with the listing, an empty or missing models/ gives failed with
\* the log tail.
C3_Original ==
    [][(CallStep("check") /\ Loadable(last'.arg)
          /\ ~Alive(LoadJobInfo(last'.arg).pid)
          /\ last'.status # "error")
         => LET m == LoadJobInfo(last'.arg).model_id
            IN IF models[m].exists /\ models[m].entries # {}
               THEN last'.status = "completed" /\ last'.payload = LsStdout(m)
               ELSE last'.status = "failed"
                      /\ last'.payload = <<"log", LoadJobInfo(last'.arg).remote_workspace>>]_vars

\* C4: check_training_status always returns; a remote command that fails, a
\* missing session or a closed one give error with the exception text, never
\* failed; failed needs the probe, the listing and the log tail all completed.
C4_PollingErrorsAreError ==
    last.op = "check" =>
        /\ last.outcome = "returned"
        /\ last.status \in {"not_found", "running", "completed", "failed", "error"}
        /\ (last.exc # "none" \/ \E i \in 1..Len(last.io) : ~last.io[i].ok)
             => (last.status = "error" /\ last.exc # "none" /\ last.payload = <<last.exc>>)
        /\ (Loadable(last.arg) /\ ~SessionOpen) => last.status = "error"
        /\ last.status = "failed"
             => /\ Len(last.io) = 3
                /\ \A i \in 1..3 : last.io[i].ok
                /\ <<last.io[1].what[1], last.io[2].what[1], last.io[3].what[1]>>
                     = <<"ps", "ls -la", "tail -50">>

C4_Witness ==
    /\ last.op = "check" /\ last.status = "error" /\ SessionOpen
    /\ Len(last.io) = 3 /\ ~last.io[3].ok

\* C5: a job id that start_training never returned and _save_job_info never
\* wrote checks as not_found, whatever the connection state, with no remote
\* command issued.
C5_UnknownIdNotFound ==
    (last.op = "check" /\ last.arg \notin written /\ last.arg \notin issued)
        => (last.status = "not_found" /\ last.io = <<>>)

C5_Witness ==
    /\ last.op = "check" /\ last.arg \notin written /\ SessionOpen
    /\ written # {}

\* C6 as the claim states it, for two successive polls of one job id: after
\* completed (failed) the next poll answers completed (failed) or error.
C6_Original ==
    [][(CallStep("check") /\ last.op = "check" /\ last'.arg = last.arg
          /\ last.status \in {"completed", "failed"})
         => last'.status \in {last.status, "error"}]_vars

\* C7 as the claim states it: with the role file missing, start_training
\* raises FileNotFoundError, returns no job id and writes no registry file.
C7_Original ==
    [][(CallStep("start") /\ ~last'.arg[2])
         => /\ last'.outcome = "raised"
            /\ last'.exc = "FileNotFoundError"
            /\ issued' = issued
            /\ registry' = registry]_vars

\* C8 as the claim states it: with the role file missing, no remote command
\* has run and no file has been transferred when the call fails.
C8_Original ==
    (last.op = "start" /\ ~last.arg[2]) => \A i \in 1..Len(last.io) : ~last.io[i].ok

\* C9 as the claim states it: after a connect that returned False the manager
\* holds neither an ssh_client nor an scp_client.
C9_Original ==
    (last.op = "connect" /\ last.outcome = "false")
        => (ssh_client = None /\ scp_client = None)

\* C10 as the claim states it: connect on a connected manager returns True,
\* opens no session and leaves ssh_client and scp_client as they were.
C10_Original ==
    [][(CallStep("connect") /\ SessionOpen /\ scp_client = ssh_client)
         => /\ last'.outcome = "true"
            /\ ssh_client' = ssh_client
            /\ scp_client' = scp_client
            /\ clients' = clients]_vars

\* C11 as the claim states it: at most one session opened by the manager is
\* live (opened and not yet closed) at any time.
C11_Original == Cardinality({c \in ClientIds : clients[c] = "open"}) <= 1

\* C12 as the claim states it: two disconnect calls in a row both return
\* without error, the second leaves the not-connected state of the first
\* (ssh_client and scp_client None) untouched, and disconnect on a manager
\* that never connected changes nothing.
C12_Original ==
    [][CallStep("disconnect")
         => /\ last'.outcome = "returned"
            /\ ssh_client' = None /\ scp_client' = None
            /\ (last.op = "disconnect" \/ \A c \in ClientIds : clients[c] = "unused")
                 => /\ ssh_client = None /\ scp_client = None
                    /\ clients' = clients /\ scps' = scps]_vars

\* C13 as the claim states it: from every state, also when closing the
\* sub-channel fails, disconnect returns normally with the session it held
\* closed and both ssh_client and scp_client None.
C13_Original ==
    last.op = "disconnect"
        => /\ last.outcome = "returned"
           /\ ssh_client = None /\ scp_client = None

\* no active session in the claim's three cases: before any connect, after a
\* connect that returned False, after disconnect
NoActiveSession ==
    \/ \A c \in ClientIds : clients[c] = "unused"
    \/ last.op = "connect" /\ last.outcome = "false"
    \/ last.op = "disconnect"

\* C14 as the claim states it: execute_command without an active session
\* raises ConnectionError and hands nothing to any channel.
C14_Original ==
    [][(CallStep("exec") /\ NoActiveSession)
         => (last'.exc = "ConnectionError" /\ last'.io = <<>>)]_vars

\* C15 as the claim states it: upload_file and download_file without an
\* active sub-channel raise ConnectionError and transfer nothing.
C15_Original ==
    [][((CallStep("upload_file") \/ CallStep("download_file")) /\ NoActiveSession)
         => (last'.exc = "ConnectionError" /\ last'.io = <<>>)]_vars

\* C16: execute_command returns the exit code, zero or not, whenever the
\* channel carried the command; it raises only without a client
\* (ConnectionError, nothing sent) or when the channel failed.
C16_ExitCodeReported ==
    last.op = "exec"
        => /\ (Len(last.io) = 1 /\ last.io[1].ok)
                => (last.outcome = "returned" /\ last.payload = <<"rc", last.arg[2]>>)
           /\ last.outcome = "raised"
                => \/ last.exc = "ConnectionError" /\ last.io = <<>> /\ ssh_client = None
                   \/ Len(last.io) = 1 /\ ~last.io[1].ok /\ last.exc = "SSHException"

C16_Witness ==
    last.op = "exec" /\ last.outcome = "returned" /\ last.payload = <<"rc", 1>>

C18_Original ==
    (last.op = "check" /\ registry[last.arg].state = "partial")
        => last.status # "not_found"

\* C19 as the claim states it: once a record exists for a job id its content
\* never changes, and no later launch saves under that id again.
C19_Original ==
    [][\A j \in JobIds :
         Loadable(j)
           => /\ registry'[j] = registry[j]
              /\ ~(CallStep("start") /\ last'.outcome = "returned" /\ last'.payload = j)]_vars

\* C20: a check_training_status or download_trained_model call, whatever it
\* answers, leaves every registry file as it was; and the status of a poll
\* follows the remote evidence of that moment alone: running exactly when the
\* recorded pid is alive, completed exactly when it is gone and the listing
\* of models/ shows the marker, whatever an earlier poll answered.
C20_PollsOnlyRead ==
    /\ [][(CallStep("check") \/ CallStep("download"))
            => (registry' = registry /\ written' = written /\ issued' = issued)]_vars
    /\ [][(CallStep("check") /\ Loadable(last'.arg) /\ last'.status # "error")
            => LET info == LoadJobInfo(last'.arg)
               IN /\ last'.status = "running" <=> Alive(info.pid)
                  /\ last'.status = "completed"
                       <=> (~Alive(info.pid)
                              /\ HasModelMarker(LsStdout(info.model_id)))]_vars

C20_Witness ==
    /\ last.op = "download" /\ last.outcome = "true"
    /\ Loadable(last.arg) /\ local_models[last.arg] = "copied"

\* C21 as the claim states it: a job id start_training returns is
\* remote_{model_id}_{pid} with pid the non-empty numeric id of the process
\* the launch started, and the record stored under it carries that id, that
\* pid, the model id and {remote_workspace}/{model_id}.
C21_Original ==
    [][(CallStep("start") /\ last'.outcome = "returned")
         => \E p \in Pids :
              LET m == last'.arg[1]
                  j == last'.payload
              IN /\ j = JobId(m, p)
                 /\ proc'[p] = JobProc(m)
                 /\ LoadFrom(registry', j) = JobInfo(j, m, RemoteWorkspace(m), p)]_vars

\* C22: a download_trained_model call for an id without a loadable record, or
\* whose remote models/ listing did not succeed, answers False and creates
\* no local directory; the only local directory a call creates is the one
\* of its own job id, and only after the listing succeeded.
C22_NoDirWithoutListing ==
    [][CallStep("download")
         => LET j == last'.arg
                listed == /\ Loadable(j)
                          /\ Len(last'.io) >= 1
                          /\ last'.io[1].what[1] = "ls -la" /\ last'.io[1].ok
                          /\ models[LoadJobInfo(j).remote_workspace[2]].exists
            IN /\ ~listed => (last'.outcome = "false" /\ local_models' = local_models)
               /\ \A k \in JobIds :
                    local_models'[k] # local_models[k] => (k = j /\ listed)]_vars

C22_Witness ==
    /\ last.op = "download" /\ last.outcome = "false" /\ last.exc = "FileNotFoundError"
    /\ Len(last.io) = 1 /\ last.io[1].ok /\ local_models[last.arg] = "none"

\* C23: download_trained_model always returns True or False and never raises;
\* a missing record, a missing session, a failed listing and a failed
\* transfer all give False; True is given only when the listing and the
\* recursive get of models/ both completed.
C23_DownloadNeverRaises ==
    last.op = "download"
        => /\ last.outcome \in {"true", "false"}
           /\ last.exc # "none" => last.outcome = "false"
           /\ (\E i \in 1..Len(last.io) : ~last.io[i].ok) => last.outcome = "false"
           /\ last.outcome = "true"
                => /\ last.exc = "none"
                   /\ Len(last.io) = 2 /\ last.io[1].ok /\ last.io[2].ok
                   /\ <<last.io[1].what[1], last.io[2].what[1]>> = <<"ls -la", "get">>
                   /\ local_models[last.arg] = "copied"

C23_Witness ==
    /\ last.op = "download" /\ last.outcome = "false" /\ last.exc = "ConnectionError"
    /\ Loadable(last.arg) /\ ssh_client = None

C25_OneCredential ==
    last.op = "connect"
        => /\ Len(last.io) <= 1
           /\ cred = "none" => (last.io = <<>> /\ last.outcome = "false")
           /\ last.io # <<>>
                => /\ last.io[1].what[1] = "connect"
                   /\ cred \in {"password", "both"} => last.io[1].what[2] = "password"
                   /\ cred = "key" => last.io[1].what[2] = "key"

C25_Witness ==
    last.op = "connect" /\ cred = "both" /\ last.io # <<>> /\ last.io[1].what[2] = "password"

\* C29 as the claim states it: download_trained_model answers True only in
\* states where check_training_status of the same job would answer
\* completed, never for a job that is running or has failed.
C29_Original ==
    [][(CallStep("download") /\ last'.outcome = "true")
         => CheckResult(last'.arg, 0).status = "completed"]_vars

\* C27 as the claim states it: once the concurrent saves under a job id have
\* all finished, the file of that id holds, whole, the text of one of them
\* (of the only one when the ids differ), and a concurrent load returns
\* nothing or a record that a caller saved under that id.
C27_Original ==
    /\ \A j \in JobIds :
         ((\E w \in Writers : savers[w].id = j)
            /\ \A w \in Writers : savers[w].id = j => savers[w].pc = "done")
           => \E w \in Writers : savers[w].id = j /\ files[j].content = Text(w)
    /\ loader.result[1] = "record" => savers[loader.result[2]].id = loader.id

\* C30 as the claim states it: while the record of a job stays loadable and
\* the session stays open, polling the job leads to a poll that answers
\* completed or failed.
C30_Original ==
    \A j \in JobIds :
        Loadable(j)
          ~> \/ last.op = "check" /\ last.arg = j /\ last.status \in {"completed", "failed"}
             \/ ~SessionOpen
             \/ ~Loadable(j)

\* a step that is one call of the API layer: a module function of
\* ssh_manager.py, or a request up to its first call of manager.connect()
ApiCall == calls' = calls + 1

C28_Original ==
    (api_pc = "idle" /\ response.handler = "ssh_status")
      => /\ ssh_client = None
         /\ scp_client = None
         /\ response.session # None => clients[response.session] # "open"

\* C32 as the claim states it: whatever connect and disconnect calls were
\* made, scp_client is set only while ssh_client is set, and it is the SCP
\* client made on the transport of the current ssh_client.
C32_Original ==
    scp_client # None => (ssh_client # None /\ scp_client = ssh_client)

\* C33 as the claim states it: a remote /train adds an entry to training_jobs
\* only in the step in which start_training returned a job id (the entry of
\* the new model id, carrying that job id), so the 400, 503 and 500 answers
\* add none; and when start_training raised, the manager is disconnected
\* (both fields None) when the 500 is answered.
C33_Original ==
    [][/\ \A m \in ModelIds :
            (training_jobs'[m] # training_jobs[m] /\ training_jobs'[m].mode = "remote")
              => /\ api_pc = "train_start"
                 /\ last'.op = "start"
                 /\ last'.outcome = "returned"
                 /\ last'.arg[1] = m
                 /\ training_jobs[m] = NoEntry
                 /\ training_jobs'[m] = RemoteEntry(last'.payload)
       /\ (response'.handler = "train" /\ response'.code \in {400, 503, 500}
             /\ response' # response)
            => training_jobs' = training_jobs
       /\ (api_pc = "train_disconnect" /\ api_pc' = "idle")
            => /\ response'.code = 500
               /\ ssh_client' = None
               /\ scp_client' = None]_vars

\* C34: every training_jobs entry of mode remote carries a remote_job_id
\* whose registry record loads, and a /status answer for such an entry is
\* never not_found.
C34_AcknowledgedJobsAreRecorded ==
    /\ \A m \in ModelIds :
         training_jobs[m].mode = "remote" => Loadable(training_jobs[m].remote_job_id)
    /\ response.handler = "status" => response.status # "not_found"

\* C34: /status has polled a job that a remote /train acknowledged.
C34_Witness ==
    /\ \E m \in ModelIds : training_jobs[m].mode = "remote"
    /\ api_pc = "idle"
    /\ response.handler = "status"
    /\ response.manager
    /\ response.code = 200

\* C31 as the claim states it: a /status poll of a job that a remote /train
\* acknowledged, served right after a /ssh/status probe or a /train has
\* answered, does not report error for want of a session (the manager
\* holding no client, or a client that was never connected).
C31_Original ==
    [][(/\ api_pc = "idle"
        /\ response.handler \in {"ssh_status", "train"}
        /\ ApiCall
        /\ response'.handler = "status"
        /\ response'.manager)
         => ~(/\ response'.status = "error"
              /\ (ssh_client = None \/ clients[ssh_client] = "new"))]_vars

\* the calls of the API layer that begin with get_ssh_manager() whatever
\* the request holds
ManagerCalls == {"get_ssh_manager", "connect_ssh", "disconnect_ssh", "ssh_status"}

\* C36: a manager once created is never dropped, and every later call gets
\* it whatever SSH_HOSTNAME is by then; a call that gets None caches nothing;
\* a call made with no manager cached creates one exactly when SSH_HOSTNAME is
\* set and the SSH libraries are there, also after earlier calls got None.
C36_OneManagerPerProcess ==
    [][/\ ssh_manager_set => ssh_manager_set'
       /\ (ApiCall /\ response'.handler \in ManagerCalls)
            => /\ ssh_manager_set => response'.manager
               /\ response'.manager <=> ssh_manager_set'
               /\ ~ssh_manager_set => (response'.manager <=> (env_hostname /\ sshAvailable))]_vars

\* C36: get_ssh_manager() returned the cached manager after SSH_HOSTNAME was
\* taken out of the environment.
C36_Witness ==
    /\ ssh_manager_set
    /\ ~env_hostname
    /\ response.handler = "get_ssh_manager"
    /\ response.manager

\* C35 as the claim states it: the recorded status of a local job moves only
\* from pending to completed or failed and is final then; model_path is set
\* exactly when the status is completed; and /download of a local job
\* answers 404 'Model not ready yet' as long as the status is not completed.
C35_Original ==
    [][/\ \A m \in ModelIds :
            (training_jobs[m].mode = "local"
               /\ training_jobs'[m].status # training_jobs[m].status)
              => /\ training_jobs[m].status = "pending"
                 /\ training_jobs'[m].status \in {"completed", "failed"}
       /\ \A m \in ModelIds :
            training_jobs'[m].mode = "local"
              => (training_jobs'[m].model_path <=> training_jobs'[m].status = "completed")
       /\ (ApiCall /\ response'.handler = "download"
             /\ \E m \in ModelIds : training_jobs[m].mode = "local"
                                      /\ training_jobs[m].status # "completed")
            => response'.code = 404]_vars

\* C38 as the claim states it: a call of _upload_string_as_file leaves no
\* temporary local file behind, whether it returns or raises, and without a
\* session it raises ConnectionError and creates no temporary file.
C38_Original ==
    [][CallStep("upload_string")
         => /\ temp_files' = temp_files
            /\ ssh_client = None
                 => (last'.exc = "ConnectionError" /\ ~last'.arg[2])]_vars

\* C37: the monitoring loop of the demo makes at most 10 status checks; a
\* check of the loop asks about the job just started, ends the loop when it
\* answers completed or failed, and is followed by another round when it
\* answers running, error or not_found and fewer than 10 checks were made.
\* disconnect is never called twice, nothing but the finally clause calls it,
\* and main has called it exactly once when it ends on any path through the
\* try block: after a failed connect, a missing role, a cancel, a failed
\* launch, or the end of the monitoring.
C37_MonitoringAndSingleDisconnect ==
    [][/\ demo'.polls <= MonitorChecks
       /\ demo'.polls # demo.polls
            => /\ demo.pc = "monitor" /\ demo'.polls = demo.polls + 1
               /\ last'.op = "check" /\ last'.arg = demo.job
               /\ last'.status \in {"completed", "failed"} => demo'.pc = "final"
               /\ (last'.status \in {"running", "error", "not_found"}
                     /\ demo'.polls < MonitorChecks) => demo'.pc = "monitor"
       /\ demo'.disconnects <= 1
       /\ demo'.disconnects # demo.disconnects
            => (demo.pc = "finally" /\ last'.op = "disconnect" /\ demo'.pc = "done")
       /\ (demo.pc = "idle" /\ demo'.pc # "idle" /\ last'.outcome = "false")
            => demo'.pc = "finally"
       /\ (demo.pc = "start" /\ demo'.pc # "start" /\ last'.outcome = "raised")
            => demo'.pc = "finally"
       /\ (demo.pc = "roles" /\ demo'.pc # "roles") => demo'.pc \in {"start", "finally"}
       /\ demo'.pc = "done" => (demo.pc \in {"finally", "done"} /\ demo'.disconnects = 1)
       /\ demo.pc = "done" => demo'.pc = "done"]_vars

\* C37: the demo ended after a monitoring loop that ran all its ten rounds,
\* and it has called disconnect once.
C37_Witness ==
    /\ demo.pc = "done"
    /\ demo.polls = MonitorChecks
    /\ demo.disconnects = 1
    /\ last.op = "disconnect"
====
